---- MODULE Spec2Model ----
(***************************************************************************)
(* nixman: the version model (src/src/versioning.rs) and the               *)
(* synchronization engine (src/src/lib.rs) with the package-manager        *)
(* wrappers it drives (src/src/pacman.rs).                                 *)
(*                                                                         *)
(* Text is a sequence of one-character strings.  An Option is a sequence   *)
(* of length 0 (None) or 1 (Some).                                         *)
(***************************************************************************)
EXTENDS Integers, Sequences, FiniteSets, TLC

VARIABLES
    host,               \* names explicitly installed on the machine (the package manager's database)
    yml,                \* the declarative file at yml_path
    use_paru,           \* apply_packages_from_yaml's argument
    continue_on_error,  \* apply_packages_from_yaml's argument
    pc,                 \* position inside apply_packages_from_yaml
    installed,          \* Vec<String> of lib.rs:251
    to_install,         \* Vec<String> of lib.rs:255
    to_remove,          \* Vec<String> of lib.rs:255
    failed_removals,    \* Vec of lib.rs:260
    failed_installs,    \* Vec of lib.rs:261
    idx,                \* position of the for loop of the current phase
    calls,              \* history: every collaborator invocation of the current run, in order
    result,             \* the Result<(), String> the run returned
    exit,               \* which return of apply_packages_from_yaml produced result
    run,                \* 1 for the first invocation of the command, 2 for the second
    past,               \* history: summaries of the finished earlier runs
    text,               \* version model: the input string
    fv,                 \* version model: FullVersion::from(text)
    shown,              \* version model: fv formatted by Display
    back,               \* version model: FullVersion::from(shown)
    vpc,                \* version model: position of the parse / format / parse pipeline
    text2,              \* comparison: the second input string
    fv2,                \* comparison: FullVersion::from(text2)
    ord,                \* comparison: fv.cmp(&fv2)
    output,             \* parse_explicit_packages' argument: the text of `pacman -Qe`
    versioned,          \* parse_explicit_packages' argument
    parsed,             \* the PackageList parse_explicit_packages returned
    lpc,                \* position of the listing parse
    null_as_text,       \* whether the YAML reader hands a null scalar to a string visitor as its text
    package_list,       \* the PackageList that is written out
    yml_doc,            \* the document serde_yml writes or reads
    reloaded,           \* the Result of reading yml_doc as a PackageList
    ypc                 \* position of the write / read pipeline

vars == <<host, yml, use_paru, continue_on_error, pc, installed, to_install,
          to_remove, failed_removals, failed_installs, idx, calls, result,
          exit, run, past, text, fv, shown, back, vpc, text2, fv2, ord,
          output, versioned, parsed, lpc, null_as_text, package_list, yml_doc,
          reloaded, ypc>>

applyVars == <<host, yml, use_paru, continue_on_error, pc, installed, to_install,
               to_remove, failed_removals, failed_installs, idx, calls, result,
               exit, run, past>>

versionVars == <<text, fv, shown, back, vpc>>

compareVars == <<text2, fv2, ord>>

listingVars == <<output, versioned, parsed, lpc>>

yamlVars == <<null_as_text, package_list, yml_doc, reloaded, ypc>>

\* everything apply_packages_from_yaml does not touch
pureVars == <<versionVars, compareVars, listingVars, yamlVars>>

(***************************************************************************)
(* Bounds of the model.                                                    *)
(***************************************************************************)
\* longest `packages` sequence of a declarative file
MaxEntries == 2
\* longest installed_packages slice handed to sync_packages_from_yaml on its own
MaxInstalled == 2
\* the largest value of the model's u32 (the code's is 2^32 - 1); a longer
\* digit string overflows and fails to parse
MaxU32 == 99
\* longest free-form version text
MaxLen == 3
\* characters of the output of the package listing
MaxListing == 4

\* package names of the model, in the order pacman -Qe lists them
Names == <<"a", "b", "c">>
NameSet == {Names[i] : i \in DOMAIN Names}

None == <<>>
Some(x) == <<x>>

Range(s) == {s[i] : i \in DOMAIN s}

Min(S) == CHOOSE x \in S : \A y \in S : x <= y
Max(S) == CHOOSE x \in S : \A y \in S : x >= y

(***************************************************************************)
(* Version model: src/src/versioning.rs                                    *)
(***************************************************************************)
Digits == <<"0", "1", "2", "3", "4", "5", "6", "7", "8", "9">>
IsDigit(c) == \E d \in DOMAIN Digits : Digits[d] = c
DigitValue(c) == (CHOOSE d \in DOMAIN Digits : Digits[d] = c) - 1

\* str::find(char): the first position of c (1-based), if any
Find(s, c) ==
    LET hits == {i \in DOMAIN s : s[i] = c}
    IN  IF hits = {} THEN None ELSE Some(Min(hits))

\* str::rfind(char): the last position of c (1-based), if any
RFind(s, c) ==
    LET hits == {i \in DOMAIN s : s[i] = c}
    IN  IF hits = {} THEN None ELSE Some(Max(hits))

\* str::split(char): the pieces between the separators, at least one piece
RECURSIVE Split(_, _)
Split(s, c) ==
    LET i == Find(s, c)
    IN  IF i = None THEN <<s>>
        ELSE <<SubSeq(s, 1, i[1] - 1)>> \o Split(SubSeq(s, i[1] + 1, Len(s)), c)

\* the digit loop of str::parse::<u32>: None on a non-digit or on overflow
RECURSIVE Accumulate(_, _)
Accumulate(s, acc) ==
    IF s = <<>> THEN Some(acc)
    ELSE IF ~IsDigit(s[1]) THEN None
    ELSE IF acc * 10 + DigitValue(s[1]) > MaxU32 THEN None
    ELSE Accumulate(Tail(s), acc * 10 + DigitValue(s[1]))

\* str::parse::<u32>(): an optional leading "+", then one or more digits
ParseU32(s) ==
    IF s = <<>> THEN None
    ELSE IF s[1] \in {"+", "-"} /\ Len(s) = 1 THEN None
    ELSE IF s[1] = "+" THEN Accumulate(Tail(s), 0)
    ELSE Accumulate(s, 0)

UnwrapOr(o, d) == IF o = None THEN d ELSE o[1]

\* impl From<&str> for Epoch
EpochFrom(s) == IF s = <<>> THEN None ELSE ParseU32(s)

\* impl From<&str> for Version
VersionFrom(s) ==
    LET parts == Split(s, ".")
        component(k) ==
            IF k <= Len(parts) THEN UnwrapOr(ParseU32(parts[k]), 0) ELSE 0
    IN  [major |-> component(1), minor |-> component(2), patch |-> component(3)]

\* impl From<&str> for Release
ReleaseFrom(s) == UnwrapOr(ParseU32(s), 0)

\* impl From<&str> for FullVersion
\* (FullVersionFromFirstDash: the release split off at the first "-")
FullVersionFromFirstDash(s) ==
    LET colon == Find(s, ":")
        epoch_str == IF colon = None THEN <<>> ELSE SubSeq(s, 1, colon[1] - 1)
        rest == IF colon = None THEN s ELSE SubSeq(s, colon[1] + 1, Len(s))
        dash == Find(rest, "-")
        version_str == IF dash = None THEN rest ELSE SubSeq(rest, 1, dash[1] - 1)
        release_str ==
            IF dash = None THEN <<"0">> ELSE SubSeq(rest, dash[1] + 1, Len(rest))
    IN  [epoch |-> EpochFrom(epoch_str),
         version |-> VersionFrom(version_str),
         release |-> ReleaseFrom(release_str)]

FullVersionFrom(s) ==
    LET colon == Find(s, ":")
        epoch_str == IF colon = None THEN <<>> ELSE SubSeq(s, 1, colon[1] - 1)
        rest == IF colon = None THEN s ELSE SubSeq(s, colon[1] + 1, Len(s))
        dash == RFind(rest, "-")
        version_str == IF dash = None THEN rest ELSE SubSeq(rest, 1, dash[1] - 1)
        release_str ==
            IF dash = None THEN <<"0">> ELSE SubSeq(rest, dash[1] + 1, Len(rest))
    IN  [epoch |-> EpochFrom(epoch_str),
         version |-> VersionFrom(version_str),
         release |-> ReleaseFrom(release_str)]

\* "{}" of a u32: its decimal digits, no sign, no leading zero
RECURSIVE ToDigits(_)
ToDigits(n) ==
    IF n < 10 THEN <<Digits[n + 1]>>
    ELSE ToDigits(n \div 10) \o <<Digits[(n % 10) + 1]>>

\* impl Display for FullVersion
\* (DisplayNoRelease: the rendering with the release segment left out)
DisplayNoRelease(v) ==
    (IF v.epoch # None THEN ToDigits(v.epoch[1]) \o <<":">> ELSE <<>>)
        \o ToDigits(v.version.major) \o <<".">> \o ToDigits(v.version.minor)
        \o <<".">> \o ToDigits(v.version.patch)

Display(v) ==
    (IF v.epoch # None THEN ToDigits(v.epoch[1]) \o <<":">> ELSE <<>>)
        \o ToDigits(v.version.major) \o <<".">> \o ToDigits(v.version.minor)
        \o <<".">> \o ToDigits(v.version.patch) \o <<"-">> \o ToDigits(v.release)

\* impl Serialize for FullVersion: the string handed to serialize_str
SerializeFullVersion(v) ==
    LET epoch_part == IF v.epoch # None THEN ToDigits(v.epoch[1]) \o <<":">> ELSE <<>>
    IN  epoch_part \o ToDigits(v.version.major) \o <<".">> \o ToDigits(v.version.minor)
            \o <<".">> \o ToDigits(v.version.patch) \o <<"-">> \o ToDigits(v.release)

\* u32's Ord
CmpU32(a, b) == IF a < b THEN "Less" ELSE IF a > b THEN "Greater" ELSE "Equal"

\* Ordering::then: the first ordering unless it is Equal
Then(first, second) == IF first = "Equal" THEN second ELSE first

\* Option<u32>'s Ord: None before every Some, two Somes by their values
\* (CmpOptionNoneLast: None after every Some)
CmpOptionNoneLast(a, b) ==
    IF a = None /\ b = None THEN "Equal"
    ELSE IF a = None THEN "Greater"
    ELSE IF b = None THEN "Less"
    ELSE CmpU32(a[1], b[1])

CmpOption(a, b) ==
    IF a = None /\ b = None THEN "Equal"
    ELSE IF a = None THEN "Less"
    ELSE IF b = None THEN "Greater"
    ELSE CmpU32(a[1], b[1])

\* #[derive(Ord)] on Epoch, Version and Release: the fields in the order
\* they are declared
CmpEpoch(a, b) == CmpOption(a, b)

CmpVersion(a, b) ==
    Then(CmpU32(a.major, b.major),
         Then(CmpU32(a.minor, b.minor), CmpU32(a.patch, b.patch)))

CmpRelease(a, b) == CmpU32(a, b)

\* #[derive(Ord)] on FullVersion: epoch, then version, then release
\* (CmpFullVersionVersionFirst: the version compared before the epoch)
CmpFullVersionVersionFirst(a, b) ==
    Then(CmpVersion(a.version, b.version),
         Then(CmpEpoch(a.epoch, b.epoch), CmpRelease(a.release, b.release)))

CmpFullVersion(a, b) ==
    Then(CmpEpoch(a.epoch, b.epoch),
         Then(CmpVersion(a.version, b.version), CmpRelease(a.release, b.release)))

\* #[derive(PartialEq)] on FullVersion: every field equal
EqFullVersion(a, b) ==
    /\ a.epoch = b.epoch
    /\ a.version.major = b.version.major
    /\ a.version.minor = b.version.minor
    /\ a.version.patch = b.version.patch
    /\ a.release = b.release

\* the value of the version variables before the step that sets them
NoVersion == [epoch |-> None, version |-> [major |-> 0, minor |-> 0, patch |-> 0], release |-> 0]

\* inputs of the version model: every short text over VersionAlphabet, and
\* the texts composed of an optional epoch, one to three components and an
\* optional release, each a digit string of NumTexts
VersionAlphabet == {"1", "2", ":", "-", ".", "x", "+"}
SeqsUpTo(S, n) == UNION {[1..k -> S] : k \in 0..n}
NumTexts == {<<"0">>, <<"7">>, <<"0", "3">>, ToDigits(MaxU32), ToDigits(MaxU32 + 1)}
EpochParts == {<<>>} \cup {n \o <<":">> : n \in NumTexts}
ReleaseParts == {<<>>} \cup {<<"-">> \o n : n \in NumTexts}
VersionParts ==
    NumTexts
        \cup {a \o <<".">> \o b : a \in NumTexts, b \in NumTexts}
        \cup {a \o <<".">> \o b \o <<".">> \o c : a \in NumTexts, b \in NumTexts, c \in NumTexts}
ComposedTexts == {e \o v \o r : e \in EpochParts, v \in VersionParts, r \in ReleaseParts}
ExampleTexts == {<<"5">>, <<"1", ".", "2", "-", "3">>}
VersionTexts == SeqsUpTo(VersionAlphabet, MaxLen) \cup ComposedTexts \cup ExampleTexts

\* FullVersion::from(text)
Parse ==
    /\ vpc = "parse"
    /\ fv' = FullVersionFrom(text)
    /\ vpc' = "format"
    /\ UNCHANGED <<text, shown, back>>
    /\ UNCHANGED applyVars
    /\ UNCHANGED <<compareVars, listingVars, yamlVars>>

\* v.to_string() / serde's Serialize of the parsed value
Format ==
    /\ vpc = "format"
    /\ \E f \in {"display", "serialize"} :
          shown' = IF f = "display" THEN Display(fv) ELSE SerializeFullVersion(fv)
    /\ vpc' = "reparse"
    /\ UNCHANGED <<text, fv, back>>
    /\ UNCHANGED applyVars
    /\ UNCHANGED <<compareVars, listingVars, yamlVars>>

\* FullVersion::from of the formatted text
Reparse ==
    /\ vpc = "reparse"
    /\ back' = FullVersionFrom(shown)
    /\ vpc' = "done"
    /\ UNCHANGED <<text, fv, shown>>
    /\ UNCHANGED applyVars
    /\ UNCHANGED <<compareVars, listingVars, yamlVars>>

\* inputs of the comparison: an optional epoch, a version of two or three
\* components and a release, with small and large numbers in every field
CompareEpochs == {<<>>, <<"1", ":">>, <<"2", ":">>}
CompareVersions ==
    {<<"1", ".", "0">>, <<"1", ".", "0", ".", "0">>, <<"2", ".", "0", ".", "0">>,
     <<"1", ".", "9", "9">>, <<"1", ".", "0", ".", "9", "9">>,
     <<"9", "9", ".", "9", "9", ".", "9", "9">>}
CompareReleases == {<<"-", "1">>, <<"-", "9">>, <<"-", "9", "9">>}
CompareTexts ==
    {e \o v \o r : e \in CompareEpochs, v \in CompareVersions, r \in CompareReleases}

\* FullVersion::from of both texts
ParsePair ==
    /\ vpc = "pair"
    /\ fv' = FullVersionFrom(text)
    /\ fv2' = FullVersionFrom(text2)
    /\ vpc' = "compare"
    /\ UNCHANGED <<text, shown, back, text2, ord>>
    /\ UNCHANGED applyVars
    /\ UNCHANGED <<listingVars, yamlVars>>

\* a.cmp(&b), which the operators <, > and == of the derived impls agree with
Compare ==
    /\ vpc = "compare"
    /\ ord' = CmpFullVersion(fv, fv2)
    /\ vpc' = "compared"
    /\ UNCHANGED <<text, fv, shown, back, text2, fv2>>
    /\ UNCHANGED applyVars
    /\ UNCHANGED <<listingVars, yamlVars>>

(***************************************************************************)
(* Listing of installed packages: src/src/lib.rs                           *)
(***************************************************************************)
\* char::is_whitespace, on the characters of the inputs
IsWhitespace(c) == c \in {" ", "\t", "\n", "\r"}

\* str::lines(): the text up to each "\n", without the "\n" and without a
\* "\r" just before it; what follows the last "\n", when not empty, is a
\* line too
RECURSIVE Lines(_)
Lines(s) ==
    IF s = <<>> THEN <<>>
    ELSE LET nl == Find(s, "\n")
             line == SubSeq(s, 1, nl[1] - 1)
         IN  IF nl = None THEN <<s>>
             ELSE <<IF line # <<>> /\ line[Len(line)] = "\r"
                    THEN SubSeq(line, 1, Len(line) - 1) ELSE line>>
                      \o Lines(SubSeq(s, nl[1] + 1, Len(s)))

\* impl From<&str> for Package: splitn(2, ' '), name and version_str
\* (PackageFromLastSpace: the line split at its last space)
PackageFromLastSpace(s) ==
    LET space == RFind(s, " ")
        name == IF space = None THEN s ELSE SubSeq(s, 1, space[1] - 1)
        version_str == IF space = None THEN <<>> ELSE SubSeq(s, space[1] + 1, Len(s))
    IN  [name |-> name,
         version |-> IF version_str = <<>> THEN None
                     ELSE Some(FullVersionFrom(version_str))]

PackageFrom(s) ==
    LET space == Find(s, " ")
        name == IF space = None THEN s ELSE SubSeq(s, 1, space[1] - 1)
        version_str == IF space = None THEN <<>> ELSE SubSeq(s, space[1] + 1, Len(s))
    IN  [name |-> name,
         version |-> IF version_str = <<>> THEN None
                     ELSE Some(FullVersionFrom(version_str))]

\* line.split_whitespace().next(): the first run of characters that are
\* not whitespace, if any
RECURSIVE TakeToken(_)
TakeToken(s) ==
    IF s = <<>> \/ IsWhitespace(s[1]) THEN <<>> ELSE <<s[1]>> \o TakeToken(Tail(s))

RECURSIVE SplitWhitespaceNext(_)
SplitWhitespaceNext(s) ==
    IF s = <<>> THEN None
    ELSE IF IsWhitespace(s[1]) THEN SplitWhitespaceNext(Tail(s))
    ELSE Some(TakeToken(s))

\* parse_explicit_packages
parse_explicit_packages(out, with_versions) ==
    LET lines == Lines(out)
    IN  [packages |->
           IF with_versions THEN [i \in DOMAIN lines |-> PackageFrom(lines[i])]
           ELSE [i \in DOMAIN lines |->
                   [name |-> UnwrapOr(SplitWhitespaceNext(lines[i]), <<>>),
                    version |-> None]]]

\* inputs of the listing: every text of up to MaxListing characters over
\* ListingAlphabet, and a listing of a versioned and an unversioned package
ListingAlphabet == {"a", "1", " ", "\t", "\n", "\r"}
ExampleListing ==
    <<"f", "o", "o", " ", "1", ".", "0", ".", "0", "-", "1", "\n", "b", "a", "r">>
ListingTexts == SeqsUpTo(ListingAlphabet, MaxListing) \cup {ExampleListing}

\* parse_explicit_packages(output, versioned)
ParseListing ==
    /\ lpc = "call"
    /\ parsed' = parse_explicit_packages(output, versioned)
    /\ lpc' = "done"
    /\ UNCHANGED <<output, versioned>>
    /\ UNCHANGED applyVars
    /\ UNCHANGED <<versionVars, compareVars, yamlVars>>

(***************************************************************************)
(* Declarative file and delta: src/src/lib.rs                              *)
(***************************************************************************)
\* a version string as it stands in the declarative file
FileVersionText == <<"1", ".", "0", ".", "0", "-", "1">>

\* a scalar of the document: a string, or a null written as `null` or `~`
YamlStr(t) == [tag |-> "str", text |-> t]
YamlNull(t) == [tag |-> "null", text |-> t]
NullScalars == {YamlNull(<<"n", "u", "l", "l">>), YamlNull(<<"~">>)}

\* the entries a `packages` sequence is made of: a bare string, or a map
\* with an optional `name` and a `version`
Entries ==
    {[shape |-> "str", name |-> Some(n), version |-> None] : n \in NameSet}
        \cup {[shape |-> "map", name |-> Some(n), version |-> Some(YamlStr(FileVersionText))] : n \in NameSet}
        \cup {[shape |-> "map", name |-> None, version |-> Some(YamlStr(FileVersionText))]}

\* the states of the file at yml_path: not readable, or holding a document
YmlFiles ==
    {[readable |-> FALSE, packages |-> <<>>]}
        \cup {[readable |-> TRUE, packages |-> es] : es \in SeqsUpTo(Entries, MaxEntries)}

Ok(v) == [ok |-> TRUE, value |-> v, err |-> <<>>]
Err(e) == [ok |-> FALSE, value |-> <<>>, err |-> e]

\* impl Deserialize for FullVersion: deserialize_str with a visitor that
\* has visit_str only. A string scalar reaches visit_str; a null scalar
\* reaches it as its text, or is refused as a value of the wrong type,
\* whichever the YAML reader does
DeserializeFullVersion(y) ==
    IF y.tag = "str" \/ null_as_text THEN Ok(FullVersionFrom(y.text))
    ELSE Err(<<"invalid type: unit value, expected a string">>)

\* impl Deserialize for Package: visit_str and visit_map
\* (DeserializePackageLenient: a map without `name` taken as the empty name)
DeserializePackageLenient(e) ==
    Ok([name |-> IF e.name = None THEN "" ELSE e.name[1],
        version |-> IF e.version = None THEN None
                    ELSE Some(FullVersionFrom(e.version[1].text))])

DeserializePackage(e) ==
    IF e.shape = "str" THEN Ok([name |-> e.name[1], version |-> None])
    ELSE IF e.version # None /\ ~DeserializeFullVersion(e.version[1]).ok
    THEN Err(DeserializeFullVersion(e.version[1]).err)
    ELSE IF e.name = None THEN Err(<<"missing field name">>)
    ELSE Ok([name |-> e.name[1],
             version |-> IF e.version = None THEN None
                         ELSE Some(DeserializeFullVersion(e.version[1]).value)])

\* std::fs::read_to_string followed by serde_yml::from_str::<PackageList>
LoadPackageList(file) ==
    IF ~file.readable THEN Err(<<"No such file or directory">>)
    ELSE IF \E i \in DOMAIN file.packages : ~DeserializePackage(file.packages[i]).ok
    THEN Err(DeserializePackage(file.packages[
                 Min({i \in DOMAIN file.packages : ~DeserializePackage(file.packages[i]).ok})]).err)
    ELSE Ok([i \in DOMAIN file.packages |-> DeserializePackage(file.packages[i]).value])

\* the entries of a hand-written file: for each name a bare string, a map
\* without `version`, a map whose `version` is null, and a map whose
\* `version` is a string
DecodeEntries ==
    {[shape |-> "str", name |-> Some(n), version |-> None] : n \in NameSet}
        \cup {[shape |-> "map", name |-> Some(n), version |-> None] : n \in NameSet}
        \cup {[shape |-> "map", name |-> Some(n), version |-> Some(y)] :
                  n \in NameSet, y \in NullScalars \cup {YamlStr(FileVersionText)}}

\* serde_yml::from_str::<PackageList> of the document
Deserialize ==
    /\ ypc = "deserialize"
    /\ reloaded' = LoadPackageList(yml_doc)
    /\ ypc' = "done"
    /\ UNCHANGED <<null_as_text, package_list, yml_doc>>
    /\ UNCHANGED applyVars
    /\ UNCHANGED <<versionVars, compareVars, listingVars>>

\* impl Serialize for Package: serialize_str(name) without a version, a
\* struct of name and version with one
\* (SerializePackageBare: the bare name written for every package)
SerializePackageBare(p) ==
    [shape |-> "str", name |-> Some(p.name), version |-> None]

SerializePackage(p) ==
    IF p.version = None
    THEN [shape |-> "str", name |-> Some(p.name), version |-> None]
    ELSE [shape |-> "map", name |-> Some(p.name),
          version |-> Some(YamlStr(SerializeFullVersion(p.version[1])))]

\* impl Serialize for PackageList, written by serde_yml::to_string: the
\* field `packages`, an entry for each package in order
SerializePackageList(list) ==
    [readable |-> TRUE, packages |-> [i \in DOMAIN list |-> SerializePackage(list[i])]]

\* the lists that are persisted: every package with no version or with a
\* version made by FullVersion::from
PersistedVersionTexts ==
    {FileVersionText,
     <<"2", ".", "1", ".", "0", "-", "2">>,
     <<"3", ".", "2", ".", "1", "-", "3">>,
     <<"2", ":", "1", ".", "0", "-", "1">>}
Packages ==
    {[name |-> n, version |-> v] :
        n \in NameSet,
        v \in {None} \cup {Some(FullVersionFrom(t)) : t \in PersistedVersionTexts}}
PackageLists == SeqsUpTo(Packages, MaxEntries)

\* serde_yml::to_string(&package_list)
Serialize ==
    /\ ypc = "serialize"
    /\ yml_doc' = SerializePackageList(package_list)
    /\ ypc' = "deserialize"
    /\ UNCHANGED <<null_as_text, package_list, reloaded>>
    /\ UNCHANGED applyVars
    /\ UNCHANGED <<versionVars, compareVars, listingVars>>

\* Iterator::collect::<HashSet<String>>()
HashSetOf(s) == {s[i] : i \in DOMAIN s}

\* HashSet::difference
\* (DifferenceSwapped: the difference taken the other way round)
DifferenceSwapped(a, b) == {x \in b : x \notin a}

\* (DifferenceForgotten: nothing taken away)
DifferenceForgotten(a, b) == a

Difference(a, b) == {x \in a : x \notin b}

\* collect::<Vec<String>>() of a HashSet iterator: every element once, in
\* an order the hasher decides
CollectVec(S) ==
    {s \in [1..Cardinality(S) -> S] : \A i, j \in 1..Cardinality(S) : i # j => s[i] # s[j]}

\* sync_packages_from_yaml: the results it can return
sync_packages_from_yaml(file, installed_packages) ==
    LET loaded == LoadPackageList(file)
        installedSet == HashSetOf(installed_packages)
        wanted == HashSetOf([i \in DOMAIN loaded.value |-> loaded.value[i].name])
    IN  IF ~loaded.ok THEN {Err(loaded.err)}
        ELSE {Ok([to_install |-> ti, to_remove |-> tr]) :
                ti \in CollectVec(Difference(wanted, installedSet)),
                tr \in CollectVec(Difference(installedSet, wanted))}

(***************************************************************************)
(* Package manager: src/src/pacman.rs                                      *)
(***************************************************************************)
\* the stdout of `pacman -Qe`: one line per explicitly installed package,
\* a line being its whitespace-separated tokens (name, version)
ListExplicitOutput(h) ==
    LET keep(n) == n \in h
        listed == SelectSeq(Names, keep)
    IN  [i \in DOMAIN listed |-> <<listed[i], "1.0.0-1">>]

\* line.split_whitespace().next().unwrap_or("") over the lines of stdout
InstalledNames(lines) ==
    [i \in DOMAIN lines |-> IF lines[i] = <<>> THEN "" ELSE lines[i][1]]

\* what a Command::status() call can give: Ok(success), Ok(non-success), Err(io)
Outcomes == {"success", "failure", "io"}

\* ExitStatus::success() of a call that did run
\* (SuccessAlways: the status never looked at)
SuccessAlways(o) == TRUE

Success(o) == o = "success"

\* the database after `-S names` / `-Rns names` ended with outcome o
HostAfter(h, op, names, o) ==
    IF o # "success" THEN h
    ELSE IF op = "install" THEN h \cup Range(names)
    ELSE h \ Range(names)

\* the command line a phase runs: paru, or sudo pacman
Tool(paru) == IF paru THEN "paru" ELSE "sudo pacman"

Call(op, tool, names, o) == [op |-> op, tool |-> tool, names |-> names, outcome |-> o]

(***************************************************************************)
(* apply_packages_from_yaml: src/src/lib.rs                                *)
(***************************************************************************)
IoErrorText == <<"io error">>
RemoveFailedText == <<"Failed to remove some packages">>
InstallFailedText == <<"Failed to install some packages">>
RemoveHeader == "Failed to remove packages: "
InstallHeader == "Failed to install packages: "

\* [String]::join(", ")
RECURSIVE Join(_)
Join(names) ==
    IF names = <<>> THEN <<>>
    ELSE IF Len(names) = 1 THEN <<names[1]>>
    ELSE <<names[1], ", ">> \o Join(Tail(names))

\* the end of apply_packages_from_yaml: Ok, or the message of both groups
\* (OutcomeInstallsFirst: the two groups written in the other order)
OutcomeInstallsFirst(fr, fi) ==
    IF fr = <<>> /\ fi = <<>> THEN Ok(<<>>)
    ELSE Err((IF fi # <<>> THEN <<InstallHeader>> \o Join(fi) \o <<"\n">> ELSE <<>>)
             \o (IF fr # <<>> THEN <<RemoveHeader>> \o Join(fr) \o <<"\n">> ELSE <<>>))

Outcome(fr, fi) ==
    IF fr = <<>> /\ fi = <<>> THEN Ok(<<>>)
    ELSE Err((IF fr # <<>> THEN <<RemoveHeader>> \o Join(fr) \o <<"\n">> ELSE <<>>)
             \o (IF fi # <<>> THEN <<InstallHeader>> \o Join(fi) \o <<"\n">> ELSE <<>>))

\* the order of the blocks of the function body: the removal block, then
\* the install block, then the final report
\* (PhaseAfterSwapped: the install block placed before the removal block)
PhaseAfterSwapped(p) ==
    CASE p = "sync" -> "install"
      [] p = "install" -> "remove"
      [] OTHER -> "finish"

PhaseAfter(p) ==
    CASE p = "sync" -> "remove"
      [] p = "remove" -> "install"
      [] OTHER -> "finish"

\* `if !to_remove.is_empty()` / `if !to_install.is_empty()`: the first
\* block from p on that has names to work on
RECURSIVE Enter(_, _, _)
Enter(p, tr, ti) ==
    IF p = "remove" /\ tr = <<>> THEN Enter(PhaseAfter(p), tr, ti)
    ELSE IF p = "install" /\ ti = <<>> THEN Enter(PhaseAfter(p), tr, ti)
    ELSE p

\* control leaves block p with the failure lists fr, fi
Leave(p, fr, fi) ==
    LET q == Enter(PhaseAfter(p), to_remove, to_install)
    IN  IF q = "finish"
        THEN /\ pc' = "done"
             /\ result' = Outcome(fr, fi)
             /\ exit' = IF fr = <<>> /\ fi = <<>> THEN "ok" ELSE "aggregate"
             /\ idx' = idx
        ELSE /\ pc' = q
             /\ idx' = 1
             /\ UNCHANGED <<result, exit>>

\* a `?` return
Abort(e, where) ==
    /\ pc' = "done"
    /\ result' = Err(e)
    /\ exit' = where

\* lib.rs:249-254  pacman_list_explicit() and the names of its lines
QueryInstalled ==
    /\ pc = "query"
    /\ \E o \in {"success", "io"} :
          /\ calls' = Append(calls, Call("list_explicit", "pacman", <<>>, o))
          /\ IF o = "io"
             THEN /\ Abort(IoErrorText, "query_io")
                  /\ UNCHANGED installed
             ELSE /\ installed' = InstalledNames(ListExplicitOutput(host))
                  /\ pc' = "sync"
                  /\ UNCHANGED <<result, exit>>
    /\ UNCHANGED <<host, yml, use_paru, continue_on_error, to_install, to_remove,
                   failed_removals, failed_installs, idx, run, past>>
    /\ UNCHANGED pureVars

\* lib.rs:255-259  sync_packages_from_yaml and the early return on an empty delta
SyncPackages ==
    /\ pc = "sync"
    /\ calls' = Append(calls, Call("read_yml", "fs", <<>>, IF yml.readable THEN "success" ELSE "io"))
    /\ \E r \in sync_packages_from_yaml(yml, installed) :
          IF ~r.ok
          THEN /\ Abort(r.err, "sync_err")
               /\ UNCHANGED <<to_install, to_remove, idx>>
          ELSE /\ to_install' = r.value.to_install
               /\ to_remove' = r.value.to_remove
               /\ idx' = 1
               /\ IF r.value.to_install = <<>> /\ r.value.to_remove = <<>>
                  THEN /\ pc' = "done"
                       /\ result' = Ok(<<>>)
                       /\ exit' = "noop"
                  ELSE /\ pc' = Enter(PhaseAfter("sync"), r.value.to_remove, r.value.to_install)
                       /\ UNCHANGED <<result, exit>>
    /\ UNCHANGED <<host, yml, use_paru, continue_on_error, installed,
                   failed_removals, failed_installs, run, past>>
    /\ UNCHANGED pureVars

\* lib.rs:274-283  one remove call with all of to_remove
RemoveBatch ==
    /\ pc = "remove"
    /\ ~continue_on_error
    /\ \E o \in Outcomes :
          /\ calls' = Append(calls, Call("remove", Tool(use_paru), to_remove, o))
          /\ host' = HostAfter(host, "remove", to_remove, o)
          /\ IF o = "io"
             THEN Abort(IoErrorText, "remove_io") /\ UNCHANGED idx
             ELSE IF ~Success(o)
             THEN Abort(RemoveFailedText, "remove_failed") /\ UNCHANGED idx
             ELSE Leave("remove", failed_removals, failed_installs)
    /\ UNCHANGED <<yml, use_paru, continue_on_error, installed, to_install, to_remove,
                   failed_removals, failed_installs, run, past>>
    /\ UNCHANGED pureVars

\* lib.rs:264-273  one iteration of the removal loop
RemoveOne ==
    /\ pc = "remove"
    /\ continue_on_error
    /\ \E o \in Outcomes :
          LET pkg == to_remove[idx]
              failed == IF ~Success(o) THEN Append(failed_removals, pkg) ELSE failed_removals
          IN  /\ calls' = Append(calls, Call("remove", Tool(use_paru), <<pkg>>, o))
              /\ host' = HostAfter(host, "remove", <<pkg>>, o)
              /\ IF o = "io"
                 THEN /\ Abort(IoErrorText, "remove_io")
                      /\ UNCHANGED <<idx, failed_removals>>
                 ELSE /\ failed_removals' = failed
                      /\ IF idx < Len(to_remove)
                         THEN /\ idx' = idx + 1
                              /\ UNCHANGED <<pc, result, exit>>
                         ELSE Leave("remove", failed, failed_installs)
    /\ UNCHANGED <<yml, use_paru, continue_on_error, installed, to_install, to_remove,
                   failed_installs, run, past>>
    /\ UNCHANGED pureVars

\* lib.rs:298-307  one install call with all of to_install
InstallBatch ==
    /\ pc = "install"
    /\ ~continue_on_error
    /\ \E o \in Outcomes :
          /\ calls' = Append(calls, Call("install", Tool(use_paru), to_install, o))
          /\ host' = HostAfter(host, "install", to_install, o)
          /\ IF o = "io"
             THEN Abort(IoErrorText, "install_io") /\ UNCHANGED idx
             ELSE IF ~Success(o)
             THEN Abort(InstallFailedText, "install_failed") /\ UNCHANGED idx
             ELSE Leave("install", failed_removals, failed_installs)
    /\ UNCHANGED <<yml, use_paru, continue_on_error, installed, to_install, to_remove,
                   failed_removals, failed_installs, run, past>>
    /\ UNCHANGED pureVars

\* lib.rs:287-297  one iteration of the install loop
InstallOne ==
    /\ pc = "install"
    /\ continue_on_error
    /\ \E o \in Outcomes :
          LET pkg == to_install[idx]
              failed == IF ~Success(o) THEN Append(failed_installs, pkg) ELSE failed_installs
          IN  /\ calls' = Append(calls, Call("install", Tool(use_paru), <<pkg>>, o))
              /\ host' = HostAfter(host, "install", <<pkg>>, o)
              /\ IF o = "io"
                 THEN /\ Abort(IoErrorText, "install_io")
                      /\ UNCHANGED <<idx, failed_installs>>
                 ELSE /\ failed_installs' = failed
                      /\ IF idx < Len(to_install)
                         THEN /\ idx' = idx + 1
                              /\ UNCHANGED <<pc, result, exit>>
                         ELSE Leave("install", failed_removals, failed)
    /\ UNCHANGED <<yml, use_paru, continue_on_error, installed, to_install, to_remove,
                   failed_removals, run, past>>
    /\ UNCHANGED pureVars

\* main.rs:152-166  the command is run a second time, nothing else touching
\* the machine or the file in between
ApplyAgain ==
    /\ pc = "done"
    /\ run = 1
    /\ run' = 2
    /\ past' = Append(past, [result |-> result, exit |-> exit, calls |-> calls])
    /\ pc' = "query"
    /\ installed' = <<>>
    /\ to_install' = <<>>
    /\ to_remove' = <<>>
    /\ failed_removals' = <<>>
    /\ failed_installs' = <<>>
    /\ idx' = 1
    /\ calls' = <<>>
    /\ result' = Err(<<>>)
    /\ exit' = "running"
    /\ UNCHANGED <<host, yml, use_paru, continue_on_error>>
    /\ UNCHANGED pureVars

\* sync_packages_from_yaml called on its own with a slice of names
SyncOnly ==
    /\ pc = "sync_only"
    /\ \E r \in sync_packages_from_yaml(yml, installed) :
          /\ result' = IF r.ok THEN Ok(<<>>) ELSE Err(r.err)
          /\ to_install' = IF r.ok THEN r.value.to_install ELSE <<>>
          /\ to_remove' = IF r.ok THEN r.value.to_remove ELSE <<>>
    /\ pc' = "synced"
    /\ UNCHANGED <<host, yml, use_paru, continue_on_error, installed, failed_removals,
                   failed_installs, idx, calls, exit, run, past>>
    /\ UNCHANGED pureVars

ApplyIdle ==
    /\ installed = <<>>
    /\ to_install = <<>>
    /\ to_remove = <<>>
    /\ failed_removals = <<>>
    /\ failed_installs = <<>>
    /\ idx = 1
    /\ calls = <<>>
    /\ result = Err(<<>>)
    /\ exit = "running"
    /\ run = 1
    /\ past = <<>>

VersionIdle ==
    /\ text = <<>>
    /\ fv = NoVersion
    /\ shown = <<>>
    /\ back = NoVersion
    /\ vpc = "idle"

CompareIdle ==
    /\ text2 = <<>>
    /\ fv2 = NoVersion
    /\ ord = "none"

ListingIdle ==
    /\ output = <<>>
    /\ versioned = FALSE
    /\ parsed = <<>>
    /\ lpc = "idle"

YamlIdle ==
    /\ null_as_text = TRUE
    /\ package_list = <<>>
    /\ yml_doc = <<>>
    /\ reloaded = Err(<<>>)
    /\ ypc = "idle"

PureIdle == VersionIdle /\ CompareIdle /\ ListingIdle /\ YamlIdle

\* one run of `nixman apply`
Init ==
    /\ host \in SUBSET NameSet
    /\ yml \in YmlFiles
    /\ use_paru \in BOOLEAN
    /\ continue_on_error \in BOOLEAN
    /\ pc = "query"
    /\ ApplyIdle
    /\ PureIdle

Next ==
    \/ QueryInstalled
    \/ SyncPackages
    \/ RemoveBatch
    \/ RemoveOne
    \/ InstallBatch
    \/ InstallOne

Spec == Init /\ [][Next]_vars

\* `nixman apply` run twice in succession
NextTwice == Next \/ ApplyAgain

SpecTwice == Init /\ [][NextTwice]_vars

\* sync_packages_from_yaml on every file and every slice of names
InitDelta ==
    /\ host = {}
    /\ yml \in YmlFiles
    /\ use_paru = FALSE
    /\ continue_on_error = FALSE
    /\ pc = "sync_only"
    /\ installed \in SeqsUpTo(NameSet, MaxInstalled)
    /\ to_install = <<>>
    /\ to_remove = <<>>
    /\ failed_removals = <<>>
    /\ failed_installs = <<>>
    /\ idx = 1
    /\ calls = <<>>
    /\ result = Err(<<>>)
    /\ exit = "running"
    /\ run = 1
    /\ past = <<>>
    /\ PureIdle

NextDelta == SyncOnly

SpecDelta == InitDelta /\ [][NextDelta]_vars

\* no run of apply_packages_from_yaml
NoApply ==
    /\ host = {}
    /\ yml = [readable |-> FALSE, packages |-> <<>>]
    /\ use_paru = FALSE
    /\ continue_on_error = FALSE
    /\ pc = "idle"
    /\ ApplyIdle

\* the version model on every input text
InitVersion ==
    /\ NoApply
    /\ text \in VersionTexts
    /\ fv = NoVersion
    /\ shown = <<>>
    /\ back = NoVersion
    /\ vpc = "parse"
    /\ CompareIdle
    /\ ListingIdle
    /\ YamlIdle

NextVersion == Parse \/ Format \/ Reparse

SpecVersion == InitVersion /\ [][NextVersion]_vars

\* the comparison of every pair of input texts
InitCompare ==
    /\ NoApply
    /\ text \in CompareTexts
    /\ text2 \in CompareTexts
    /\ fv = NoVersion
    /\ fv2 = NoVersion
    /\ shown = <<>>
    /\ back = NoVersion
    /\ ord = "none"
    /\ vpc = "pair"
    /\ ListingIdle
    /\ YamlIdle

NextCompare == ParsePair \/ Compare

SpecCompare == InitCompare /\ [][NextCompare]_vars

\* parse_explicit_packages on every listing, in both modes
InitListing ==
    /\ NoApply
    /\ VersionIdle
    /\ CompareIdle
    /\ output \in ListingTexts
    /\ versioned \in BOOLEAN
    /\ parsed = <<>>
    /\ lpc = "call"
    /\ YamlIdle

NextListing == ParseListing

SpecListing == InitListing /\ [][NextListing]_vars

\* the decoding of every hand-written file
InitDecode ==
    /\ NoApply
    /\ VersionIdle
    /\ CompareIdle
    /\ ListingIdle
    /\ null_as_text \in BOOLEAN
    /\ package_list = <<>>
    /\ yml_doc \in {[readable |-> TRUE, packages |-> es] :
                        es \in SeqsUpTo(DecodeEntries, MaxEntries)}
    /\ reloaded = Err(<<>>)
    /\ ypc = "deserialize"

NextDecode == Deserialize

SpecDecode == InitDecode /\ [][NextDecode]_vars

\* every persisted list written and read back
InitYaml ==
    /\ NoApply
    /\ VersionIdle
    /\ CompareIdle
    /\ ListingIdle
    /\ null_as_text \in BOOLEAN
    /\ package_list \in PackageLists
    /\ yml_doc = <<>>
    /\ reloaded = Err(<<>>)
    /\ ypc = "serialize"

NextYaml == Serialize \/ Deserialize

SpecYaml == InitYaml /\ [][NextYaml]_vars

(***************************************************************************)
(* Properties                                                              *)
(***************************************************************************)
Done == pc = "done"

IsOperation(c) == c.op \in {"remove", "install"}
IsRemove(c) == c.op = "remove"
IsInstall(c) == c.op = "install"
OpCalls == SelectSeq(calls, IsOperation)
RemoveCalls == SelectSeq(calls, IsRemove)
InstallCalls == SelectSeq(calls, IsInstall)

\* names(desired): the names the declarative file asks for
WantedNames == {yml.packages[i].name[1] : i \in {k \in DOMAIN yml.packages : yml.packages[k].name # None}}
\* the names the installed query returned
InstalledSet == Range(installed)

\* C1: in every run of Apply, whatever continue_on_error is, no remove is
\* invoked once an install has been invoked: every remove invocation comes
\* before every install invocation.
C1_RemoveBeforeInstall ==
    \A i, j \in DOMAIN calls :
        (i < j /\ calls[i].op = "install") => calls[j].op # "remove"

\* a finished per-name run that invoked two removes and then an install
C1_Witness ==
    /\ Done
    /\ continue_on_error
    /\ Len(RemoveCalls) >= 2
    /\ Len(InstallCalls) >= 1

\* C2: with continue_on_error = false each phase invokes the collaborator at
\* most once, with the whole name set of the phase; a remove call that
\* returns non-success makes Apply return an error without install ever
\* being invoked, and an install call that returns non-success makes Apply
\* return an error.
C2_FailFast ==
    ~continue_on_error =>
        /\ Len(RemoveCalls) <= 1
        /\ Len(InstallCalls) <= 1
        /\ \A i \in DOMAIN RemoveCalls :
              /\ RemoveCalls[i].names = to_remove
              /\ Range(RemoveCalls[i].names) = InstalledSet \ WantedNames
        /\ \A i \in DOMAIN InstallCalls :
              /\ InstallCalls[i].names = to_install
              /\ Range(InstallCalls[i].names) = WantedNames \ InstalledSet
        /\ (\E i \in DOMAIN RemoveCalls : RemoveCalls[i].outcome = "failure")
              => (Done /\ ~result.ok /\ InstallCalls = <<>>)
        /\ (\E i \in DOMAIN InstallCalls : InstallCalls[i].outcome = "failure")
              => (Done /\ ~result.ok)

\* a fail-fast run whose batch remove of two names failed while there was
\* something to install
C2_Witness ==
    /\ Done
    /\ ~continue_on_error
    /\ Len(RemoveCalls) = 1
    /\ Len(RemoveCalls[1].names) >= 2
    /\ RemoveCalls[1].outcome = "failure"
    /\ to_install # <<>>

\* the calls of one phase are one call per name of the phase, in order
OncePerName(phaseCalls, names) ==
    /\ Len(phaseCalls) = Len(names)
    /\ \A k \in DOMAIN phaseCalls : phaseCalls[k].names = <<names[k]>>

\* the calls of one phase made so far are one call per name, for the first names
OncePerNameSoFar(phaseCalls, names) ==
    /\ Len(phaseCalls) <= Len(names)
    /\ \A k \in DOMAIN phaseCalls : phaseCalls[k].names = <<names[k]>>

\* every call of the phase that returned non-success has its name in the failure list
FailuresRecorded(phaseCalls, failed) ==
    \A k \in DOMAIN phaseCalls :
        phaseCalls[k].outcome = "failure" => phaseCalls[k].names[1] \in Range(failed)

FailedNames(phaseCalls) ==
    LET failing(c) == c.outcome = "failure"
        bad == SelectSeq(phaseCalls, failing)
    IN  [k \in DOMAIN bad |-> bad[k].names[1]]

\* the names an error message lists in the group that header starts: the
\* tokens between the header and the next line break, separators left out
GroupNames(msg, header) ==
    LET p == Find(msg, header)
        after == SubSeq(msg, p[1] + 1, Len(msg))
        nl == Find(after, "\n")
        isName(t) == t # ", "
    IN  IF p = None THEN <<>>
        ELSE SelectSeq(SubSeq(after, 1, (IF nl = None THEN Len(after) ELSE nl[1] - 1)), isName)

NoRepeats(s) == \A i, j \in DOMAIN s : i # j => s[i] # s[j]

\* the number of tokens of a group of n names: header, names, separators, line break
GroupLength(n) == IF n = 0 THEN 0 ELSE 2 * n + 1

\* the report accounts for the failed call c: its phase's failure message
\* in a fail-fast run, its name in the group of its phase otherwise
Accounted(c) ==
    IF continue_on_error
    THEN c.names[1] \in Range(GroupNames(result.err,
                                 IF c.op = "remove" THEN RemoveHeader ELSE InstallHeader))
    ELSE result.err = (IF c.op = "remove" THEN RemoveFailedText ELSE InstallFailedText)

\* C4: an install or remove call that returned a non-success status is
\* never swallowed: the run returns an error whose report accounts for it,
\* whatever the later calls of the run do, an I/O failure included.
C4_NoFailureSwallowed ==
    Done =>
        \A i \in DOMAIN OpCalls :
            OpCalls[i].outcome = "failure" => (~result.ok /\ Accounted(OpCalls[i]))

\* C5: a run that went through both phases to the end returns Ok exactly
\* when no call failed (none was recorded); otherwise its message names
\* every failed removal and every failed install, each once, and nothing
\* else, the removals group first, a group being written only when it has
\* names.
C5_AggregatedReport ==
    (Done /\ exit \in {"ok", "aggregate"}) =>
        LET fr == FailedNames(RemoveCalls)
            fi == FailedNames(InstallCalls)
            msg == result.err
        IN  /\ fr = failed_removals
            /\ fi = failed_installs
            /\ result.ok <=> (fr = <<>> /\ fi = <<>>)
            /\ result.ok => msg = <<>>
            /\ ~result.ok =>
                  /\ (Find(msg, RemoveHeader) # None) <=> (fr # <<>>)
                  /\ (Find(msg, InstallHeader) # None) <=> (fi # <<>>)
                  /\ Range(GroupNames(msg, RemoveHeader)) = Range(fr)
                  /\ Range(GroupNames(msg, InstallHeader)) = Range(fi)
                  /\ NoRepeats(GroupNames(msg, RemoveHeader))
                  /\ NoRepeats(GroupNames(msg, InstallHeader))
                  /\ Len(msg) = GroupLength(Len(fr)) + GroupLength(Len(fi))
                  /\ (fr # <<>> /\ fi # <<>>)
                        => Find(msg, RemoveHeader)[1] < Find(msg, InstallHeader)[1]

\* a per-name run that finished with a failed removal and a failed install
C5_Witness ==
    /\ Done
    /\ exit = "aggregate"
    /\ FailedNames(RemoveCalls) # <<>>
    /\ FailedNames(InstallCalls) # <<>>
    /\ Find(result.err, RemoveHeader) # None
    /\ Find(result.err, InstallHeader) # None

\* C6: the installed query comes before the load of the declarative file;
\* when the query fails with an I/O error, or the file cannot be read or
\* holds an entry map without a name, the run returns an error and no
\* install or remove is ever invoked.
C6_FatalBeforePhases ==
    /\ \A j \in DOMAIN calls :
          calls[j].op = "read_yml" =>
              \E i \in 1..(j - 1) : calls[i].op = "list_explicit" /\ calls[i].outcome = "success"
    /\ \A j \in DOMAIN calls :
          IsOperation(calls[j]) => \E i \in 1..(j - 1) : calls[i].op = "read_yml"
    /\ (\E i \in DOMAIN calls : calls[i].op = "list_explicit" /\ calls[i].outcome = "io")
          => (Done /\ ~result.ok /\ Len(calls) = 1)
    /\ (~yml.readable \/ \E k \in DOMAIN yml.packages : yml.packages[k].name = None)
          => /\ OpCalls = <<>>
             /\ Done => ~result.ok
             /\ pc \in {"query", "sync", "done"}

\* a run that stopped on an entry map without a name, after the query and
\* the load, with a machine that differs from the file's other names
C6_Witness ==
    /\ Done
    /\ yml.readable
    /\ \E k \in DOMAIN yml.packages : yml.packages[k].name = None
    /\ Len(calls) = 2
    /\ calls[2].op = "read_yml"
    /\ exit = "sync_err"
    /\ InstalledSet # WantedNames

\* C7: remove is invoked only with names that are installed and not
\* wanted, install only with names that are wanted and not installed, no
\* name twice for the same operation in one run; with both delta sets
\* empty the run returns Ok without invoking any operation.
C7_OnlyDeltaNames ==
    /\ \A i \in DOMAIN RemoveCalls :
          /\ Range(RemoveCalls[i].names) \subseteq (InstalledSet \ WantedNames)
          /\ NoRepeats(RemoveCalls[i].names)
          /\ \A j \in DOMAIN RemoveCalls :
                i # j => Range(RemoveCalls[i].names) \cap Range(RemoveCalls[j].names) = {}
    /\ \A i \in DOMAIN InstallCalls :
          /\ Range(InstallCalls[i].names) \subseteq (WantedNames \ InstalledSet)
          /\ NoRepeats(InstallCalls[i].names)
          /\ \A j \in DOMAIN InstallCalls :
                i # j => Range(InstallCalls[i].names) \cap Range(InstallCalls[j].names) = {}
    /\ (Done /\ exit \notin {"query_io", "sync_err"} /\ InstalledSet = WantedNames)
          => (result.ok /\ exit = "noop" /\ OpCalls = <<>>)
    /\ (Done /\ to_install = <<>> /\ to_remove = <<>>) => OpCalls = <<>>

\* a run that removed and installed names
C7_Witness ==
    /\ Done
    /\ RemoveCalls # <<>>
    /\ InstallCalls # <<>>
    /\ Cardinality(InstalledSet) >= 2

\* C8: sync_packages_from_yaml returns to_install = names(desired) minus
\* installed and to_remove = installed minus names(desired), each without
\* duplicates, whatever duplicates the two lists hold; the two results are
\* disjoint, and both are empty exactly when the two name sets are equal.
C8_DeltaCorrect ==
    (pc = "synced" /\ result.ok) =>
        /\ Range(to_install) = WantedNames \ InstalledSet
        /\ Range(to_remove) = InstalledSet \ WantedNames
        /\ NoRepeats(to_install)
        /\ NoRepeats(to_remove)
        /\ Range(to_install) \cap Range(to_remove) = {}
        /\ (to_install = <<>> /\ to_remove = <<>>) <=> (WantedNames = InstalledSet)

\* a delta of one name to install and one to remove, computed from a file
\* and an installed list that each hold a name twice or share a name
C8_Witness ==
    /\ pc = "synced"
    /\ result.ok
    /\ Len(to_install) = 1
    /\ Len(to_remove) = 1
    /\ Len(yml.packages) = 2
    /\ Len(installed) = 2
    /\ \/ ~NoRepeats(installed)
       \/ WantedNames \cap InstalledSet # {}

\* C9 as stated: the delta the second of two runs in succession computes
\* is empty, and that run succeeds without performing any operation.
C9_Original ==
    (run = 2 /\ pc \notin {"query", "sync"} /\ exit \notin {"query_io", "sync_err"}) =>
        /\ to_install = <<>> /\ to_remove = <<>>
        /\ OpCalls = <<>>
        /\ Done => result.ok

\* C9 amended: when the first run returned Ok and the installed query of
\* the second run does not fail, the second run has an empty delta and
\* returns Ok without invoking any operation.
C9_IdempotentAfterSuccess ==
    (run = 2 /\ past[1].result.ok) =>
        /\ OpCalls = <<>>
        /\ to_install = <<>> /\ to_remove = <<>>
        /\ pc \in {"query", "sync", "done"}
        /\ (Done /\ exit # "query_io") => (result.ok /\ exit = "noop" /\ Len(calls) = 2)

\* a second run that ended as a no-op after a first run that removed and
\* installed names and returned Ok
C9_Witness ==
    /\ run = 2
    /\ Done
    /\ past[1].result.ok
    /\ \E i, j \in DOMAIN past[1].calls :
          past[1].calls[i].op = "remove" /\ past[1].calls[j].op = "install"
    /\ result.ok
    /\ exit = "noop"

\* C10: formatting a parsed FullVersion, by Display or by Serialize, and
\* parsing the text again gives the same FullVersion.
C10_RoundTrip ==
    vpc = "done" => back = fv

\* a round trip of a version with an epoch, a two-digit major and no zero field
C10_Witness ==
    /\ vpc = "done"
    /\ fv.epoch # None
    /\ fv.version.major > 9
    /\ fv.version.minor > 0
    /\ fv.version.patch > 0
    /\ fv.release > 0
    /\ back = fv

\* the five fields in order of precedence, an absent epoch below epoch 0
Key(v) ==
    <<IF v.epoch = None THEN 0 ELSE v.epoch[1] + 1,
      v.version.major, v.version.minor, v.version.patch, v.release>>

\* the order decided by the first field in which two versions differ
Lexicographic(a, b) ==
    LET differ == {i \in 1..5 : Key(a)[i] # Key(b)[i]}
    IN  IF differ = {} THEN "Equal"
        ELSE IF Key(a)[Min(differ)] < Key(b)[Min(differ)] THEN "Less"
        ELSE "Greater"

Reverse(o) == IF o = "Less" THEN "Greater" ELSE IF o = "Greater" THEN "Less" ELSE o

CompareValues == {FullVersionFrom(t) : t \in CompareTexts}

\* C11: the comparison of two FullVersions is a total order: a < b, a == b
\* and a > b exclude each other and one of them holds, b against a gives the
\* reverse, and the order is transitive. It is decided by the first of epoch
\* (absent below every present value), major, minor, patch and release in
\* which the two differ, so that 2:1.0-1 is greater than 1:99.99.99-99.
C11_TotalLexicographicOrder ==
    vpc = "compared" =>
        /\ ord \in {"Less", "Equal", "Greater"}
        /\ ord = Lexicographic(fv, fv2)
        /\ (ord = "Equal") <=> EqFullVersion(fv, fv2)
        /\ EqFullVersion(fv, fv2) <=> (fv = fv2)
        /\ CmpFullVersion(fv2, fv) = Reverse(ord)
        /\ \A c \in CompareValues :
              ord = CmpFullVersion(fv2, c) => CmpFullVersion(fv, c) = ord
        /\ (fv.epoch # fv2.epoch => ord = CmpOption(fv.epoch, fv2.epoch))
        /\ (fv.epoch = None /\ fv2.epoch # None => ord = "Less")
        /\ (text = <<"2", ":", "1", ".", "0", "-", "1">>
                /\ text2 = <<"1", ":", "9", "9", ".", "9", "9", ".", "9", "9", "-", "9", "9">>
              => ord = "Greater")

\* 2:1.0-1 compared with 1:99.99.99-99: the epoch decides against every
\* other field
C11_Witness ==
    /\ vpc = "compared"
    /\ text = <<"2", ":", "1", ".", "0", "-", "1">>
    /\ text2 = <<"1", ":", "9", "9", ".", "9", "9", ".", "9", "9", "-", "9", "9">>
    /\ fv.version.major < fv2.version.major
    /\ fv.release < fv2.release
    /\ ord = "Greater"

\* the pair 1:1.0.0-1 and 2.0.0-9 after the comparison
EpochAgainstNone ==
    /\ vpc = "compared"
    /\ text = <<"1", ":", "1", ".", "0", ".", "0", "-", "1">>
    /\ text2 = <<"2", ".", "0", ".", "0", "-", "9">>

\* C12 as stated: Parse("1:1.0.0-1") > Parse("2.0.0-9") is false.
C12_Original ==
    EpochAgainstNone => ord # "Greater"

\* C12: Parse("1:1.0.0-1") > Parse("2.0.0-9") is true, the present epoch 1
\* being above the absent epoch of 2.0.0-9.
C12_EpochPresentGreater ==
    EpochAgainstNone => ord = "Greater"

C12_Witness ==
    /\ EpochAgainstNone
    /\ fv.epoch = Some(1)
    /\ fv2.epoch = None
    /\ fv.version.major < fv2.version.major
    /\ ord = "Greater"

\* a number: digits, after an optional "+", of a value that fits the field
RECURSIVE DecimalValue(_)
DecimalValue(d) ==
    IF d = <<>> THEN 0
    ELSE 10 * DecimalValue(SubSeq(d, 1, Len(d) - 1)) + DigitValue(d[Len(d)])

Unsigned(s) == IF s # <<>> /\ s[1] = "+" THEN Tail(s) ELSE s

IsNumber(s) ==
    /\ Unsigned(s) # <<>>
    /\ \A i \in DOMAIN Unsigned(s) : IsDigit(Unsigned(s)[i])
    /\ DecimalValue(Unsigned(s)) <= MaxU32

NumberOr(s, d) == IF IsNumber(s) THEN DecimalValue(Unsigned(s)) ELSE d

Has(s, c) == \E i \in DOMAIN s : s[i] = c
FirstAt(s, c) == CHOOSE i \in DOMAIN s : s[i] = c /\ \A j \in 1..(i - 1) : s[j] # c
LastAt(s, c) == CHOOSE i \in DOMAIN s : s[i] = c /\ \A j \in (i + 1)..Len(s) : s[j] # c

\* the text after the first ":" (the whole text without one), and what is
\* left of it before its last "-"
Remainder(s) == IF Has(s, ":") THEN SubSeq(s, FirstAt(s, ":") + 1, Len(s)) ELSE s
VersionText(s) ==
    IF Has(Remainder(s), "-")
    THEN SubSeq(Remainder(s), 1, LastAt(Remainder(s), "-") - 1)
    ELSE Remainder(s)

\* the k-th "."-separated component of v: from after the (k-1)-th "." to
\* before the k-th, <<"missing">> when v has fewer than k - 1 dots
DotCount(v) == Cardinality({i \in DOMAIN v : v[i] = "."})
DotAt(v, k) ==
    CHOOSE i \in DOMAIN v : v[i] = "." /\ Cardinality({j \in 1..i : v[j] = "."}) = k
Component(v, k) ==
    IF k > DotCount(v) + 1 THEN <<"missing">>
    ELSE SubSeq(v, IF k = 1 THEN 1 ELSE DotAt(v, k - 1) + 1,
                   IF k <= DotCount(v) THEN DotAt(v, k) - 1 ELSE Len(v))

ExpectedEpoch(s) ==
    IF ~Has(s, ":") THEN None
    ELSE IF ~IsNumber(SubSeq(s, 1, FirstAt(s, ":") - 1)) THEN None
    ELSE Some(DecimalValue(Unsigned(SubSeq(s, 1, FirstAt(s, ":") - 1))))

ExpectedRelease(s) ==
    IF ~Has(Remainder(s), "-") THEN 0
    ELSE NumberOr(SubSeq(Remainder(s), LastAt(Remainder(s), "-") + 1, Len(Remainder(s))), 0)

\* C13: FullVersion::from gives a value for every text. The epoch is the
\* number before the first ":", absent without a ":" or when that text is
\* empty or not a number; the release is the number after the last "-" of
\* the remainder, 0 without a "-" or when that text is empty or not a
\* number; each of the first three "."-separated components is its number,
\* 0 when missing or not a number. "" gives (absent, (0,0,0), 0), "5" gives
\* (absent, (5,0,0), 0) and "1.2-3" gives (absent, (1,2,0), 3).
C13_LenientDefaults ==
    vpc # "parse" =>
        /\ fv.epoch = ExpectedEpoch(text)
        /\ fv.release = ExpectedRelease(text)
        /\ fv.version.major = NumberOr(Component(VersionText(text), 1), 0)
        /\ fv.version.minor = NumberOr(Component(VersionText(text), 2), 0)
        /\ fv.version.patch = NumberOr(Component(VersionText(text), 3), 0)
        /\ (text = <<>> =>
              fv = [epoch |-> None,
                    version |-> [major |-> 0, minor |-> 0, patch |-> 0], release |-> 0])
        /\ (text = <<"5">> =>
              fv = [epoch |-> None,
                    version |-> [major |-> 5, minor |-> 0, patch |-> 0], release |-> 0])
        /\ (text = <<"1", ".", "2", "-", "3">> =>
              fv = [epoch |-> None,
                    version |-> [major |-> 1, minor |-> 2, patch |-> 0], release |-> 3])

\* x:2 parsed: an epoch that is not a number, two components and the
\* release missing
C13_Witness ==
    /\ vpc # "parse"
    /\ text = <<"x", ":", "2">>
    /\ fv = [epoch |-> None,
             version |-> [major |-> 2, minor |-> 0, patch |-> 0], release |-> 0]

\* the lines of a text: each ends at a "\n" (a "\r" before it belongs to
\* the line ending), and what follows the last "\n", when not empty, is
\* the last line
LineCount(t) ==
    Cardinality({i \in DOMAIN t : t[i] = "\n"})
        + (IF t # <<>> /\ t[Len(t)] # "\n" THEN 1 ELSE 0)
NewlineAt(t, k) ==
    CHOOSE i \in DOMAIN t : t[i] = "\n" /\ Cardinality({j \in 1..i : t[j] = "\n"}) = k
InputLine(t, k) ==
    LET newlines == Cardinality({i \in DOMAIN t : t[i] = "\n"})
        from == IF k = 1 THEN 1 ELSE NewlineAt(t, k - 1) + 1
        to == IF k > newlines THEN Len(t)
              ELSE IF NewlineAt(t, k) > from /\ t[NewlineAt(t, k) - 1] = "\r"
              THEN NewlineAt(t, k) - 2
              ELSE NewlineAt(t, k) - 1
    IN  SubSeq(t, from, to)

\* the first whitespace-delimited token of a line, empty when there is none
FirstToken(line) ==
    IF \A i \in DOMAIN line : IsWhitespace(line[i]) THEN <<>>
    ELSE LET i == CHOOSE i \in DOMAIN line :
                     ~IsWhitespace(line[i]) /\ \A j \in 1..(i - 1) : IsWhitespace(line[j])
             j == CHOOSE j \in i..Len(line) :
                     /\ \A m \in i..j : ~IsWhitespace(line[m])
                     /\ j = Len(line) \/ IsWhitespace(line[j + 1])
         IN  SubSeq(line, i, j)

\* C14: parse_explicit_packages gives one Package per line of the output,
\* in line order. With versioned = true the name is the line up to its
\* first space and the version is absent when nothing follows that space,
\* FullVersion::from of what follows otherwise; with versioned = false the
\* name is the first whitespace-delimited token and the version is absent.
\* An empty line, and a line of spaces, gives an empty name.
C14_OnePackagePerLine ==
    lpc = "done" =>
        /\ DOMAIN parsed = {"packages"}
        /\ Len(parsed.packages) = LineCount(output)
        /\ \A k \in 1..LineCount(output) :
              LET line == InputLine(output, k)
                  p == parsed.packages[k]
                  tail == SubSeq(line, FirstAt(line, " ") + 1, Len(line))
              IN  /\ versioned /\ Has(line, " ") =>
                        /\ p.name = SubSeq(line, 1, FirstAt(line, " ") - 1)
                        /\ p.version = IF tail = <<>> THEN None
                                       ELSE Some(FullVersionFrom(tail))
                  /\ versioned /\ ~Has(line, " ") =>
                        p.name = line /\ p.version = None
                  /\ ~versioned => p.name = FirstToken(line) /\ p.version = None
                  /\ (\A i \in DOMAIN line : line[i] = " ") => p.name = <<>>
                  /\ ~versioned /\ (\A i \in DOMAIN line : IsWhitespace(line[i]))
                        => p.name = <<>>

\* the listing "foo 1.0.0-1", "bar" read with versions
C14_Witness ==
    /\ lpc = "done"
    /\ versioned
    /\ output = ExampleListing
    /\ parsed.packages =
          <<[name |-> <<"f", "o", "o">>,
             version |-> Some([epoch |-> None,
                               version |-> [major |-> 1, minor |-> 0, patch |-> 0],
                               release |-> 1])],
            [name |-> <<"b", "a", "r">>, version |-> None]>>

\* an entry map with a name whose `version` is missing or null
NoVersionRecorded(e) ==
    /\ e.shape = "map"
    /\ e.name # None
    /\ e.version = None \/ e.version[1].tag = "null"

\* C15: an entry map without `version` and an entry map whose `version` is
\* null both decode to a Package with no version, the same Package as the
\* bare-string entry of that name.
C15_AbsentAndNullAlike ==
    ypc = "done" =>
        \A i \in DOMAIN yml_doc.packages :
            NoVersionRecorded(yml_doc.packages[i]) =>
                /\ reloaded.ok
                /\ reloaded.value[i].version = None
                /\ Ok(reloaded.value[i]) =
                      DeserializePackage([shape |-> "str",
                                          name |-> yml_doc.packages[i].name,
                                          version |-> None])

\* C16: a PackageList whose packages carry no version or a version made by
\* FullVersion::from, serialized and deserialized, is the same list, entry
\* by entry in the same order; a package without a version is written as
\* its bare name, one with a version as a map of name and formatted version.
C16_ListRoundTrip ==
    /\ ypc # "serialize" =>
          /\ Len(yml_doc.packages) = Len(package_list)
          /\ \A i \in DOMAIN package_list :
                IF package_list[i].version = None
                THEN /\ yml_doc.packages[i].shape = "str"
                     /\ yml_doc.packages[i].name = Some(package_list[i].name)
                ELSE /\ yml_doc.packages[i].shape = "map"
                     /\ yml_doc.packages[i].name = Some(package_list[i].name)
                     /\ yml_doc.packages[i].version =
                           Some(YamlStr(Display(package_list[i].version[1])))
    /\ ypc = "done" =>
          /\ reloaded.ok
          /\ reloaded.value = package_list

\* a list of a package without a version and one with an epoch, read back
C16_Witness ==
    /\ ypc = "done"
    /\ Len(package_list) = 2
    /\ package_list[1].version = None
    /\ package_list[2].version # None
    /\ package_list[2].version[1].epoch = Some(2)
    /\ yml_doc.packages[1].shape = "str"
    /\ yml_doc.packages[2].shape = "map"
    /\ reloaded.ok
    /\ reloaded.value = package_list

====
